---- MODULE Spec2Model ----
(***************************************************************************)
(* A model of the CHIP-8 machine of chip8emu: class Chip8 (its memory,     *)
(* registers, call stack, display, keypad and timers), its operations      *)
(* load, cpu_next_instr, decrement_delay_timer and decrement_sound_timer,  *)
(* and the sixteen opcode family handlers.                                 *)
(*                                                                         *)
(* A machine value is a record with one field per data member of Chip8     *)
(* plus two fields that describe how the last operation ended:             *)
(*   outcome  "ok" (the call returned), "abort" (an assert failed or the   *)
(*            process trapped) or "throw" (an exception left the call);    *)
(*   ub       TRUE once the call executed undefined behaviour.             *)
(* The repository holds the class twice: with its member functions defined *)
(* out of line (src/chip8.cpp with its header) and, in an older header,    *)
(* defined inline.  The two differ in the initializers of the timers and   *)
(* in case 0x1E of handle_F_instr; the field build says which is compiled. *)
(* Every operation is a set-valued operator: the set of machines the call  *)
(* can leave behind.  Undefined behaviour and the random generator give    *)
(* more than one element.                                                  *)
(***************************************************************************)
EXTENDS Integers, Sequences, FiniteSets, TLC

\* ------------------------------------------------------------ constants
RAM_SIZE == 4096
MAX_PROG_SIZE == 4096 - 512
GPREG_NUM == 16
FONT_START_ADDR == 0
PC_RESET_VALUE == 512
SCREEN_SIZE == 64 * 32
KEYBOARD_SIZE == 16

\* width of uint8_t and uint16_t
U8 == 2 ^ 8
U16 == 2 ^ 16

\* the initializer list of ram: sixteen glyphs of five rows each
FontTable ==
    << 240, 144, 144, 144, 240,
        32,  96,  32,  32, 112,
       240,  16, 240, 128, 240,
       240,  16, 240,  16, 240,
       144, 144, 240,  16,  16,
       240, 128, 240,  16, 240,
       240, 128, 240, 144, 240,
       240,  16,  32,  64,  64,
       240, 144, 240, 144, 240,
       240, 144, 240,  16, 240,
       240, 144, 240, 144, 144,
       224, 144, 224, 144, 224,
       240, 128, 128, 128, 240,
       224, 144, 144, 144, 224,
       240, 128, 240, 128, 240,
       240, 128, 240, 128, 128 >>

\* The contents of std::array<uint8_t, RAM_SIZE> are kept as the function from
\* the addresses that hold a byte other than 0 to that byte: every address of
\* 0..RAM_SIZE-1 outside its domain holds 0.  Each array has one such function.

\* ram[a] for an address inside the array
Byte(mem, a) == IF a \in DOMAIN mem THEN mem[a] ELSE 0

\* the array after ram[a] = b
Store(mem, a, b) ==
    IF b = 0
    THEN [x \in DOMAIN mem \ {a} |-> mem[x]]
    ELSE [x \in DOMAIN mem \cup {a} |-> IF x = a THEN b ELSE mem[x]]

\* the array given byte by byte, as a function on 0..RAM_SIZE-1
ArrayOf(bytes) ==
    [a \in {x \in DOMAIN bytes : bytes[x] # 0} |-> bytes[a]]

\* std::array<uint8_t, RAM_SIZE> ram{ ... }: the listed bytes, then zeros
RamInitByte(a) == IF a < Len(FontTable) THEN FontTable[a + 1] ELSE 0
RamInit == ArrayOf([a \in 0..(RAM_SIZE - 1) |-> RamInitByte(a)])

\* ------------------------------------------------------------ bit arithmetic
RECURSIVE BitAnd(_, _)
BitAnd(a, b) ==
    IF a = 0 \/ b = 0 THEN 0
    ELSE (a % 2) * (b % 2) + 2 * BitAnd(a \div 2, b \div 2)

RECURSIVE BitOr(_, _)
BitOr(a, b) ==
    IF a = 0 THEN b
    ELSE IF b = 0 THEN a
    ELSE (IF (a % 2) + (b % 2) > 0 THEN 1 ELSE 0) + 2 * BitOr(a \div 2, b \div 2)

RECURSIVE BitXor(_, _)
BitXor(a, b) ==
    IF a = 0 THEN b
    ELSE IF b = 0 THEN a
    ELSE (((a % 2) + (b % 2)) % 2) + 2 * BitXor(a \div 2, b \div 2)

\* std::bitset<8>::test(i): bit i of a byte
TestBit(byte, i) == (byte \div (2 ^ i)) % 2 = 1

\* ------------------------------------------------------------ bounds
\* an indeterminate (never initialised) member holds one of MaxSeed + 1 values
MaxSeed == 1
\* number of instruction words of a loaded test program
MaxProgWords == 1
\* deepest call stack the model follows
MaxDepth == 3
\* number of timer decrement calls the model follows
MaxTicks == 2
\* number of instruction words of a program of calls and returns
MaxCallWords == 3
\* number of instruction words of a program of draws
MaxDrawWords == 3
\* the host presses and releases MaxKey + 1 of the sixteen keys
MaxKey == 1
\* number of instruction words of a program of draws at the screen's edges
MaxSpriteWords == 2
\* number of instruction words of a program of block transfers
MaxBlockWords == 2
\* number of instruction words of a program of additions to I
MaxIndexWords == 2
\* the operands of the arithmetic programs lie within MaxEdge of 0, 128 and 255
MaxEdge == 0
\* frames of the host loop that are run
MaxFrames == 3
\* the timer values the host programs set are 0..MaxTimerSet
MaxTimerSet == 2

\* the k-th value an indeterminate byte / 16-bit word is drawn from
SeedByte(k) == (k * 61) % U8
SeedWord(k) == (k * 4094) % U16

\* what an out-of-bounds read can return
GarbageBytes == {0, 255}
GarbageWords == {0, PC_RESET_VALUE, 65535}

\* ------------------------------------------------------------ decoding
\* mutant: Y is taken with the shift of X
instruction_t_YFromX(n) ==
    [ X   |-> BitAnd(n \div 256, 15),
      Y   |-> BitAnd(n \div 256, 15),
      N   |-> BitAnd(n, 15),
      NN  |-> BitAnd(n, 255),
      NNN |-> BitAnd(n, 4095) ]

\* instruction_t::instruction_t(uint16_t n)
instruction_t(n) ==
    [ X   |-> BitAnd(n \div 256, 15),
      Y   |-> BitAnd(n \div 16, 15),
      N   |-> BitAnd(n, 15),
      NN  |-> BitAnd(n, 255),
      NNN |-> BitAnd(n, 4095) ]

\* ------------------------------------------------------------ outcomes
\* the call ends the process: a failed assert, a trap
Aborted(m) == [m EXCEPT !.outcome = "abort"]

\* an exception leaves the call (nothing in the program catches it)
Thrown(m) == [m EXCEPT !.outcome = "throw"]

\* the call has executed undefined behaviour
Undefined(m) == [m EXCEPT !.ub = TRUE]

\* std::unreachable() in the default label of a switch: undefined behaviour.
\* The build may trap, may leave the switch, or may have compiled the switch
\* without a range check, so that control lands in one of its other cases.
Unreachable(m, cases) ==
    {Aborted(Undefined(m)), Undefined(m)} \cup {Undefined(c) : c \in cases}

\* ram[a] read as an rvalue: the byte, or anything when a is out of bounds
ReadRam(m, a) == IF a < RAM_SIZE THEN {Byte(m.ram, a)} ELSE GarbageBytes

\* ------------------------------------------------------------ opcode families
\* case 0x0EE of handle_0_instr: PC = stack.top(); stack.pop();
\* top() and pop() of an empty std::stack are undefined behaviour: the build
\* may trap, or load whatever lies before the deque's storage into PC.
ReturnFromSubroutine(m) ==
    IF Len(m.stack) > 0
    THEN {[m EXCEPT !.PC = m.stack[Len(m.stack)],
                    !.stack = SubSeq(m.stack, 1, Len(m.stack) - 1)]}
    ELSE {Aborted(Undefined(m))}
         \cup {Undefined([m EXCEPT !.PC = g]) : g \in GarbageWords}

\* case 0x0E0 of handle_0_instr: screen.reset();
ClearScreen(m) == {[m EXCEPT !.screen = {}]}

handle_0_instr(m, instr) ==
    CASE instr.NNN = 224 -> ClearScreen(m)
      [] instr.NNN = 238 -> ReturnFromSubroutine(m)
      [] OTHER -> Unreachable(m, ClearScreen(m) \cup ReturnFromSubroutine(m))

handle_1_instr(m, instr) == {[m EXCEPT !.PC = instr.NNN]}

\* mutant: the call pushes the address of the call, not of the next instruction
handle_2_instr_PushesCallAddress(m, instr) ==
    {[m EXCEPT !.stack = Append(m.stack, (m.PC - 2) % U16), !.PC = instr.NNN]}

handle_2_instr(m, instr) ==
    {[m EXCEPT !.stack = Append(m.stack, m.PC), !.PC = instr.NNN]}

\* mutant: the skip passes over two instructions
Skip_ByFour(m) == [m EXCEPT !.PC = (m.PC + 4) % U16]

\* PC += 2 on a uint16_t
Skip(m) == [m EXCEPT !.PC = (m.PC + 2) % U16]

handle_3_instr(m, instr) == {IF m.V[instr.X] = instr.NN THEN Skip(m) ELSE m}

handle_4_instr(m, instr) == {IF m.V[instr.X] # instr.NN THEN Skip(m) ELSE m}

handle_5_instr(m, instr) == {IF m.V[instr.X] = m.V[instr.Y] THEN Skip(m) ELSE m}

handle_6_instr(m, instr) == {[m EXCEPT !.V[instr.X] = instr.NN]}

handle_7_instr(m, instr) == {[m EXCEPT !.V[instr.X] = (@ + instr.NN) % U8]}

\* V[r] = val
SetV(m, r, val) == [m EXCEPT !.V[r] = val]

\* mutant: the carry test is <=, so adding 0 raises the flag
Alu4_CarryOnEqual(m, instr) ==
    LET tmp == m.V[instr.X]
        m1 == SetV(m, instr.X, (m.V[instr.X] + m.V[instr.Y]) % U8)
    IN  SetV(m1, 15, IF m1.V[instr.X] <= tmp THEN 1 ELSE 0)

\* case 0x4: tmp = V[X]; V[X] += V[Y]; V[0xF] = (V[X] < tmp);
Alu4(m, instr) ==
    LET tmp == m.V[instr.X]
        m1 == SetV(m, instr.X, (m.V[instr.X] + m.V[instr.Y]) % U8)
    IN  SetV(m1, 15, IF m1.V[instr.X] < tmp THEN 1 ELSE 0)

\* mutant: the borrow test is >=, so subtracting 0 clears the flag
Alu5_BorrowOnEqual(m, instr) ==
    LET tmp == m.V[instr.X]
        m1 == SetV(m, instr.X, (m.V[instr.X] - m.V[instr.Y]) % U8)
    IN  SetV(m1, 15, IF m1.V[instr.X] >= tmp THEN 0 ELSE 1)

\* case 0x5: tmp = V[X]; V[X] -= V[Y]; V[0xF] = !(V[X] > tmp);
Alu5(m, instr) ==
    LET tmp == m.V[instr.X]
        m1 == SetV(m, instr.X, (m.V[instr.X] - m.V[instr.Y]) % U8)
    IN  SetV(m1, 15, IF m1.V[instr.X] > tmp THEN 0 ELSE 1)

\* mutant: the copy is made whatever the switch says
ShiftSource_Always(m, instr) == SetV(m, instr.X, m.V[instr.Y])

\* if(copy_vy_to_vx_in_shift){ V[X] = V[Y]; }
ShiftSource(m, instr) ==
    IF m.config.copy_vy_to_vx_in_shift THEN SetV(m, instr.X, m.V[instr.Y]) ELSE m

\* mutant: the flag is written before the shifted value
Alu6_FlagFirst(m, instr) ==
    LET m0 == ShiftSource(m, instr)
        tmp == BitAnd(m0.V[instr.X], 1)
        m1 == SetV(m0, 15, tmp)
    IN  SetV(m1, instr.X, m0.V[instr.X] \div 2)

\* case 0x6: tmp = V[X] & 0x1; V[X] >>= 1; V[0xF] = tmp;
Alu6(m, instr) ==
    LET m0 == ShiftSource(m, instr)
        tmp == BitAnd(m0.V[instr.X], 1)
        m1 == SetV(m0, instr.X, m0.V[instr.X] \div 2)
    IN  SetV(m1, 15, tmp)

\* case 0x7: V[X] = V[Y] - V[X]; V[0xF] = !(V[X] > V[Y]);
Alu7(m, instr) ==
    LET m1 == SetV(m, instr.X, (m.V[instr.Y] - m.V[instr.X]) % U8)
    IN  SetV(m1, 15, IF m1.V[instr.X] > m1.V[instr.Y] THEN 0 ELSE 1)

\* case 0xE: tmp = V[X] >> 7; V[X] <<= 1; V[0xF] = tmp;
AluE(m, instr) ==
    LET m0 == ShiftSource(m, instr)
        tmp == m0.V[instr.X] \div 128
        m1 == SetV(m0, instr.X, (m0.V[instr.X] * 2) % U8)
    IN  SetV(m1, 15, tmp)

\* the nine cases of the switch of handle_8_instr, by N
Alu(m, instr, n) ==
    CASE n = 0 -> SetV(m, instr.X, m.V[instr.Y])
      [] n = 1 -> SetV(m, instr.X, BitOr(m.V[instr.X], m.V[instr.Y]))
      [] n = 2 -> SetV(m, instr.X, BitAnd(m.V[instr.X], m.V[instr.Y]))
      [] n = 3 -> SetV(m, instr.X, BitXor(m.V[instr.X], m.V[instr.Y]))
      [] n = 4 -> Alu4(m, instr)
      [] n = 5 -> Alu5(m, instr)
      [] n = 6 -> Alu6(m, instr)
      [] n = 7 -> Alu7(m, instr)
      [] n = 14 -> AluE(m, instr)

AluCases == {0, 1, 2, 3, 4, 5, 6, 7, 14}

handle_8_instr(m, instr) ==
    IF instr.N \in AluCases
    THEN {Alu(m, instr, instr.N)}
    ELSE Unreachable(m, {Alu(m, instr, n) : n \in AluCases})

handle_9_instr(m, instr) == {IF m.V[instr.X] # m.V[instr.Y] THEN Skip(m) ELSE m}

handle_A_instr(m, instr) == {[m EXCEPT !.I = instr.NNN]}

handle_B_instr(m, instr) ==
    LET reg == IF m.config.make_BNNN_into_BXNN THEN instr.X ELSE 0
    IN  {[m EXCEPT !.PC = m.V[reg] + instr.NNN]}

\* std::uniform_int_distribution<> distrib(0, 255)
handle_C_instr(m, instr) ==
    {SetV(m, instr.X, BitAnd(rnd, instr.NN)) : rnd \in 0..255}

\* mutant: the inner loop lacks x + c < 64, so a row runs on into the next one
SpritePixels_NoClip(sprite_row, x, y, r) ==
    {(y + r) * 64 + x + c : c \in {k \in 0..7 : TestBit(sprite_row, 7 - k)}}

\* the positions the inner loop of handle_D_instr visits with a set sprite bit:
\* c in 0..7 with x + c < 64 and sprite_row.test(7 - c); each is visited once
SpritePixels(sprite_row, x, y, r) ==
    {(y + r) * 64 + x + c : c \in {k \in 0..7 : x + k < 64 /\ TestBit(sprite_row, 7 - k)}}

\* mutant: a set sprite bit sets the pixel instead of flipping it
DrawCols_SetsPixels(m, sprite_row, x, y, r) ==
    LET hit == SpritePixels(sprite_row, x, y, r)
    IN  [m EXCEPT !.V[15] = IF hit \cap m.screen # {} THEN 1 ELSE @,
                  !.screen = @ \cup hit]

\* the inner loop of handle_D_instr for one sprite row: every visited position
\* that is set makes V[0xF] = 1, and every visited position is flipped
DrawCols(m, sprite_row, x, y, r) ==
    LET hit == SpritePixels(sprite_row, x, y, r)
    IN  [m EXCEPT !.V[15] = IF hit \cap m.screen # {} THEN 1 ELSE @,
                  !.screen = (@ \ hit) \cup (hit \ @)]

\* the outer loop of handle_D_instr: rows r..N-1; g is what a read past the
\* end of ram returns
RECURSIVE DrawRows(_, _, _, _, _, _)
DrawRows(m, n, x, y, r, g) ==
    IF r < n /\ y + r < 32
    THEN LET sprite_row == IF m.I + r < RAM_SIZE THEN Byte(m.ram, m.I + r) ELSE g
         IN  DrawRows(DrawCols(m, sprite_row, x, y, r), n, x, y, r + 1, g)
    ELSE m

\* mutant: V[0xF] = 0 comes first, so the origin is read after the reset
handle_D_instr_ResetsFirst(m, instr) ==
    LET m0 == SetV(m, 15, 0)
        x == m0.V[instr.X] % 64
        y == m0.V[instr.Y] % 32
        oob == \E r \in 0..(instr.N - 1) : y + r < 32 /\ m.I + r >= RAM_SIZE
    IN  IF ~oob
        THEN {DrawRows(m0, instr.N, x, y, 0, 0)}
        ELSE {Aborted(Undefined(m0))}
             \cup {Undefined(DrawRows(m0, instr.N, x, y, 0, g)) : g \in GarbageBytes}

handle_D_instr(m, instr) ==
    LET x == m.V[instr.X] % 64
        y == m.V[instr.Y] % 32
        m0 == SetV(m, 15, 0)
        oob == \E r \in 0..(instr.N - 1) : y + r < 32 /\ m.I + r >= RAM_SIZE
    IN  IF ~oob
        THEN {DrawRows(m0, instr.N, x, y, 0, 0)}
        ELSE {Aborted(Undefined(m0))}
             \cup {Undefined(DrawRows(m0, instr.N, x, y, 0, g)) : g \in GarbageBytes}

\* keyboard.test(V[X]) and the conditional skip; std::bitset::test throws
\* std::out_of_range when the position is not below the size
SkipOnKey(m, instr, pressed) ==
    IF m.V[instr.X] >= KEYBOARD_SIZE THEN Thrown(m)
    ELSE IF (m.V[instr.X] \in m.keyboard) = pressed THEN Skip(m)
    ELSE m

handle_E_instr(m, instr) ==
    CASE instr.NN = 158 -> {SkipOnKey(m, instr, TRUE)}
      [] instr.NN = 161 -> {SkipOnKey(m, instr, FALSE)}
      [] OTHER -> Unreachable(m, {SkipOnKey(m, instr, TRUE), SkipOnKey(m, instr, FALSE)})

\* mutant: the loop lacks its return, so the last pressed key wins and PC is
\* rewound although a key was found
WaitKey_NoReturn(m, instr) ==
    LET m1 == IF m.keyboard # {}
              THEN SetV(m, instr.X, CHOOSE i \in m.keyboard : \A j \in m.keyboard : i >= j)
              ELSE m
    IN  [m1 EXCEPT !.PC = (m.PC - 2) % U16]

\* case 0xA: the first pressed key goes to V[X]; with none, PC -= 2
WaitKey(m, instr) ==
    IF m.keyboard # {}
    THEN SetV(m, instr.X, CHOOSE i \in m.keyboard : \A j \in m.keyboard : i <= j)
    ELSE [m EXCEPT !.PC = (m.PC - 2) % U16]

\* case 0x29: I = ram[V[X] & 0xF];
FontChar(m, instr) == [m EXCEPT !.I = Byte(m.ram, BitAnd(m.V[instr.X], 15))]

\* ram[a] = b; a store past the end of ram does not reach ram
WriteRam(m, a, b) ==
    IF a < RAM_SIZE THEN [m EXCEPT !.ram = Store(@, a, b)] ELSE Undefined(m)

\* mutant: the tens are stored without the % 10
Bcd_TensNotReduced(m, instr) ==
    LET v == m.V[instr.X]
        m1 == WriteRam(m, m.I + 2, v % 10)
        m2 == WriteRam(m1, m.I + 1, v \div 10)
    IN  WriteRam(m2, m.I, (v \div 100) % 10)

\* case 0x33: ram[I + 2], ram[I + 1], ram[I] in that order
Bcd(m, instr) ==
    LET v == m.V[instr.X]
        m1 == WriteRam(m, m.I + 2, v % 10)
        m2 == WriteRam(m1, m.I + 1, (v \div 10) % 10)
    IN  WriteRam(m2, m.I, (v \div 100) % 10)

\* mutant: I is advanced by X, one short
AdvanceI_ByX(m, instr) ==
    IF m.config.FX55_FX65_modify_I
    THEN [m EXCEPT !.I = (m.I + instr.X) % U16]
    ELSE m

\* if(FX55_FX65_modify_I){ I += instr.X + 1; }
AdvanceI(m, instr) ==
    IF m.config.FX55_FX65_modify_I
    THEN [m EXCEPT !.I = (m.I + instr.X + 1) % U16]
    ELSE m

\* case 0x55: for(int i = 0; i <= instr.X; ++i){ ram[I + i] = V[i]; }
RECURSIVE StoreRegs(_, _, _)
StoreRegs(m, instr, i) ==
    IF i <= instr.X
    THEN StoreRegs(WriteRam(m, m.I + i, m.V[i]), instr, i + 1)
    ELSE m

\* case 0x65: for(int i = 0; i <= instr.X; ++i){ V[i] = ram[I + i]; }
RECURSIVE LoadRegs(_, _, _, _)
LoadRegs(m, instr, i, g) ==
    IF i <= instr.X
    THEN LET m1 == IF m.I + i < RAM_SIZE
                   THEN SetV(m, i, Byte(m.ram, m.I + i))
                   ELSE Undefined(SetV(m, i, g))
         IN  LoadRegs(m1, instr, i + 1, g)
    ELSE m

\* case 0x1E: I += V[instr.X]; the inline header goes on with
\* V[0xF] = (I > 0xFFF); which src/chip8.cpp has as a comment
AddToIndex(m, instr) ==
    LET m1 == [m EXCEPT !.I = (m.I + m.V[instr.X]) % U16]
    IN  IF m.build = "inline"
        THEN SetV(m1, 15, IF m1.I > 4095 THEN 1 ELSE 0)
        ELSE m1

\* a call that has executed undefined behaviour may also have trapped
OrTrap(results) ==
    results \cup {Aborted(r) : r \in {q \in results : q.ub}}

handle_F_instr(m, instr) ==
    CASE instr.NN = 7 -> {SetV(m, instr.X, m.delay_timer)}
      [] instr.NN = 10 -> {WaitKey(m, instr)}
      [] instr.NN = 21 -> {[m EXCEPT !.delay_timer = m.V[instr.X]]}
      [] instr.NN = 24 -> {[m EXCEPT !.sound_timer = m.V[instr.X]]}
      [] instr.NN = 30 -> {AddToIndex(m, instr)}
      [] instr.NN = 41 -> {FontChar(m, instr)}
      [] instr.NN = 51 -> OrTrap({Bcd(m, instr)})
      [] instr.NN = 85 -> OrTrap({AdvanceI(StoreRegs(m, instr, 0), instr)})
      [] instr.NN = 101 ->
            OrTrap({AdvanceI(LoadRegs(m, instr, 0, g), instr) : g \in GarbageBytes})
      [] OTHER -> {m}

\* tmp >> 12 on a uint16_t: what the switch of cpu_next_instr selects on
Family(tmp) == tmp \div (2 ^ 12)

\* the switch on tmp >> 12 of cpu_next_instr
Execute(m, tmp) ==
    LET instr == instruction_t(tmp)
        family == Family(tmp)
    IN  CASE family = 0 -> handle_0_instr(m, instr)
          [] family = 1 -> handle_1_instr(m, instr)
          [] family = 2 -> handle_2_instr(m, instr)
          [] family = 3 -> handle_3_instr(m, instr)
          [] family = 4 -> handle_4_instr(m, instr)
          [] family = 5 -> handle_5_instr(m, instr)
          [] family = 6 -> handle_6_instr(m, instr)
          [] family = 7 -> handle_7_instr(m, instr)
          [] family = 8 -> handle_8_instr(m, instr)
          [] family = 9 -> handle_9_instr(m, instr)
          [] family = 10 -> handle_A_instr(m, instr)
          [] family = 11 -> handle_B_instr(m, instr)
          [] family = 12 -> handle_C_instr(m, instr)
          [] family = 13 -> handle_D_instr(m, instr)
          [] family = 14 -> handle_E_instr(m, instr)
          [] family = 15 -> handle_F_instr(m, instr)

\* uint16_t tmp = ram[PC++] << 8; tmp |= ram[PC++];
\* the words the fetch can produce (one, unless PC or PC + 1 is out of bounds)
Fetch(m) ==
    {hi * 256 + lo : hi \in ReadRam(m, m.PC), lo \in ReadRam(m, (m.PC + 1) % U16)}

\* mutant: the fetch also counts the delay timer down
Fetched_TicksDelay(m) ==
    LET oob == m.PC >= RAM_SIZE \/ (m.PC + 1) % U16 >= RAM_SIZE
    IN  [m EXCEPT !.PC = (m.PC + 2) % U16, !.ub = oob,
                  !.delay_timer = IF @ > 0 THEN @ - 1 ELSE @]

\* PC after the two post-increments
Fetched(m) ==
    LET oob == m.PC >= RAM_SIZE \/ (m.PC + 1) % U16 >= RAM_SIZE
    IN  [m EXCEPT !.PC = (m.PC + 2) % U16, !.ub = oob]

cpu_next_instr(m) ==
    OrTrap(UNION {Execute(Fetched(m), tmp) : tmp \in Fetch(m)})

\* Chip8::load: assert(prog.size() < MAX_PROG_SIZE); memcpy to &ram[0x200].
\* The sources never define NDEBUG, so the assert is compiled in.
load(m, prog) ==
    LET dest == PC_RESET_VALUE..(PC_RESET_VALUE + Len(prog) - 1)
        kept == DOMAIN m.ram \ dest
        written == {a \in dest : prog[a - PC_RESET_VALUE + 1] # 0}
        copied == [a \in kept \cup written |->
                     IF a \in written THEN prog[a - PC_RESET_VALUE + 1] ELSE m.ram[a]]
    IN  IF Len(prog) < MAX_PROG_SIZE
        THEN {[m EXCEPT !.ram = copied]}
        ELSE {Aborted(m)}

\* --delay_timer; on a uint8_t
decrement_delay_timer(m) == {[m EXCEPT !.delay_timer = (@ - 1) % U8]}

\* --sound_timer; on a uint8_t
decrement_sound_timer(m) == {[m EXCEPT !.sound_timer = (@ - 1) % U8]}

\* ------------------------------------------------------------ the end of a frame
\* mutant: the delay timer is decremented without the test
TickDelay_Unguarded(m) == decrement_delay_timer(m)

\* if(c.get_delay_timer() > 0){ c.decrement_delay_timer(); }
TickDelay(m) == IF m.delay_timer > 0 THEN decrement_delay_timer(m) ELSE {m}

\* if(c.get_sound_timer() > 0){ c.decrement_sound_timer();
\*     if(c.get_sound_timer() > 0) SDL_ResumeAudioStreamDevice(stream);
\*     else SDL_PauseAudioStreamDevice(stream); }
\* the machine and the state of the audio device afterwards
TickSound(m, audio) ==
    IF m.sound_timer > 0
    THEN {[m |-> r, audio |-> IF r.sound_timer > 0 THEN "playing" ELSE "paused"] :
             r \in decrement_sound_timer(m)}
    ELSE {[m |-> m, audio |-> audio]}

\* ------------------------------------------------------------ state
VARIABLES
    ram,            \* std::array<uint8_t, RAM_SIZE>, as the function of its bytes that are not 0
    PC,             \* uint16_t
    I,              \* uint16_t
    V,              \* std::array<uint8_t, GPREG_NUM>
    stack,          \* std::stack<uint16_t>, the top is the last element
    delay_timer,    \* uint8_t
    sound_timer,    \* uint8_t
    screen,         \* std::bitset<SCREEN_SIZE>, as the set of positions that are set
    keyboard,       \* std::bitset<KEYBOARD_SIZE>, as the set of positions that are set
    config,         \* the three quirk switches
    build,          \* which of the two definitions of the class is compiled
    outcome,        \* how the last call ended: "ok", "abort" or "throw"
    ub,             \* TRUE once a call has executed undefined behaviour
    ticks,          \* history: number of timer decrement calls so far
    calls,          \* history: the calls not yet returned from, innermost last
    last,           \* history: the last call and the call before it
    host            \* main's loop: its position in the frame, the audio device,
                    \* and the history of the frames

vars == << ram, PC, I, V, stack, delay_timer, sound_timer, screen, keyboard,
           config, build, outcome, ub, ticks, calls, last, host >>

\* the machine as one value
M ==
    [ ram |-> ram, PC |-> PC, I |-> I, V |-> V, stack |-> stack,
      delay_timer |-> delay_timer, sound_timer |-> sound_timer,
      screen |-> screen, keyboard |-> keyboard, config |-> config,
      build |-> build, outcome |-> outcome, ub |-> ub ]

\* the machine becomes r
Becomes(r) ==
    /\ ram' = r.ram
    /\ PC' = r.PC
    /\ I' = r.I
    /\ V' = r.V
    /\ stack' = r.stack
    /\ delay_timer' = r.delay_timer
    /\ sound_timer' = r.sound_timer
    /\ screen' = r.screen
    /\ keyboard' = r.keyboard
    /\ config' = r.config
    /\ build' = r.build
    /\ outcome' = r.outcome
    /\ ub' = r.ub

\* what the history keeps of the state a call started in
Snapshot ==
    [ ram |-> ram, PC |-> PC, I |-> I, V |-> V, stack |-> stack, screen |-> screen,
      delay_timer |-> delay_timer, sound_timer |-> sound_timer,
      keyboard |-> keyboard ]

\* the history entry of a call made now: the call, the word it fetches at
\* which address (a step), the rom it is given (a load), the state it starts
\* in, and the same of the call before it
Call(op, word, addr, prog) ==
    [ op |-> op, word |-> word, addr |-> addr, prog |-> prog, pre |-> Snapshot,
      prior |-> [op |-> last.op, word |-> last.word, addr |-> last.addr,
                 pre |-> last.pre] ]

\* the call can be made: the process is alive and its state is defined
Alive == outcome = "ok" /\ ~ub

\* the word at PC, when both of its bytes are inside ram
WordAtPC ==
    IF PC + 1 < RAM_SIZE THEN Byte(ram, PC) * 256 + Byte(ram, PC + 1) ELSE -1

\* the initializers of the three quirk switches
DefaultConfig ==
    [ copy_vy_to_vx_in_shift |-> FALSE,
      make_BNNN_into_BXNN |-> FALSE,
      FX55_FX65_modify_I |-> FALSE ]

\* int ips = 700; int refresh_rate = 60; (main.cpp:30-31)
ips == 700
refresh_rate == 60

\* ips / refresh_rate on two ints: the steps of one frame
StepsPerFrame == ips \div refresh_rate

\* a timer the program has not set yet
NotSet == [n |-> -1, k |-> 0]

\* main before its loop: no step of the first frame is done, and the device
\* opened by SDL_OpenAudioDeviceStream is paused until it is resumed.
\* History: the frames ended so far, the steps the last ended frame ran, and
\* for each timer the value n its last FX15 / FX18 gave it and the number k
\* of frames ended since.
HostStart ==
    host = [ i |-> 0, audio |-> "paused", frames |-> 0, ran |-> 0,
             delay_set |-> NotSet, sound_set |-> NotSet ]

\* Chip8 c; the members that both definitions of the class treat alike: ram
\* and PC have an initializer; I and V have none and are indeterminate; stack,
\* screen and keyboard are default-constructed (empty)
Members ==
    /\ ram = RamInit
    /\ PC = PC_RESET_VALUE
    /\ I \in {SeedWord(k) : k \in 0..MaxSeed}
    /\ V \in {[r \in 0..(GPREG_NUM - 1) |-> IF r = 0 THEN SeedByte(a) ELSE SeedByte(b)] :
                a \in 0..MaxSeed, b \in 0..MaxSeed}
    /\ stack = << >>
    /\ screen = {}
    /\ keyboard = {}
    /\ outcome = "ok"
    /\ ub = FALSE

\* nothing has been called yet
NoHistory ==
    /\ ticks = 0
    /\ calls = << >>
    /\ last = [ op |-> "init", word |-> -1, addr |-> -1, prog |-> << >>,
                pre |-> Snapshot,
                prior |-> [op |-> "none", word |-> -1, addr |-> -1, pre |-> Snapshot] ]

\* Chip8 c; of src/chip8.cpp and its header: the timers start at 0 and the
\* switches are off
Init ==
    /\ Members
    /\ delay_timer = 0
    /\ sound_timer = 0
    /\ config = DefaultConfig
    /\ build = "src"
    /\ NoHistory
    /\ HostStart

\* ------------------------------------------------------------ operations
\* c.load(rom), once, before the first step (main.cpp:43)
Load(prog) ==
    /\ Alive
    /\ last.op = "init"
    /\ \E r \in load(M, prog) : Becomes(r)
    /\ UNCHANGED << ticks, calls, host >>
    /\ last' = Call("load", -1, -1, prog)

\* the history of calls after a step on word w at address a ends as r: a call
\* 2NNN that returned normally is entered with the stack it found, and a
\* return 00EE that returned normally leaves the innermost call
Called(w, a, r) ==
    IF r.outcome # "ok" \/ r.ub \/ w < 0 THEN calls
    ELSE IF w \div 4096 = 2 THEN Append(calls, [at |-> a, before |-> stack])
    ELSE IF w = 238 /\ Len(calls) > 0 THEN SubSeq(calls, 1, Len(calls) - 1)
    ELSE calls

\* c.cpu_next_instr(), after the rom is loaded (main.cpp:43, main.cpp:86):
\* what the call does to the machine
StepMachine ==
    /\ Alive
    /\ last.op # "init"
    /\ \E r \in cpu_next_instr(M) :
          /\ Len(r.stack) <= MaxDepth
          /\ Becomes(r)
          /\ calls' = Called(WordAtPC, PC, r)
    /\ ticks' = ticks
    /\ last' = Call("step", WordAtPC, PC, << >>)

\* one call of c.cpu_next_instr() on its own
Step ==
    /\ StepMachine
    /\ host' = host

\* c.decrement_delay_timer()
DecrementDelayTimer ==
    /\ Alive
    /\ ticks < MaxTicks
    /\ \E r \in decrement_delay_timer(M) : Becomes(r)
    /\ ticks' = ticks + 1
    /\ calls' = calls
    /\ host' = host
    /\ last' = Call("decrement_delay_timer", -1, -1, << >>)

\* c.decrement_sound_timer()
DecrementSoundTimer ==
    /\ Alive
    /\ ticks < MaxTicks
    /\ \E r \in decrement_sound_timer(M) : Becomes(r)
    /\ ticks' = ticks + 1
    /\ calls' = calls
    /\ host' = host
    /\ last' = Call("decrement_sound_timer", -1, -1, << >>)

\* Keypad update (spec section 6): the host sets or clears the pressed state
\* of one key; the machine only reads it.
KeypadUpdate(k, pressed) ==
    /\ Alive
    /\ last.op # "init"
    /\ keyboard' = IF pressed THEN keyboard \cup {k} ELSE keyboard \ {k}
    /\ keyboard' # keyboard
    /\ UNCHANGED << ram, PC, I, V, stack, delay_timer, sound_timer, screen, config,
                    build, outcome, ub, ticks, calls, host >>
    /\ last' = Call("keypad_update", -1, -1, << >>)

\* Decode and the selection of the handler in cpu_next_instr, on their own:
\* instruction_t instr(tmp); switch(tmp >> 12).  Neither reads or writes the
\* machine; the history keeps the fields and the selected family.
Decode(tmp) ==
    /\ UNCHANGED << ram, PC, I, V, stack, delay_timer, sound_timer, screen, keyboard,
                    config, build, outcome, ub, ticks, calls, host >>
    /\ last' = [ op |-> "decode", word |-> tmp, addr |-> -1, prog |-> << >>,
                 pre |-> Snapshot,
                 prior |-> [op |-> last.op, word |-> last.word, addr |-> last.addr,
                            pre |-> last.pre],
                 instr |-> instruction_t(tmp),
                 family |-> Family(tmp) ]

\* the word at PC is FX15 (nn = 21) or FX18 (nn = 24)
SetsTimer(nn) ==
    WordAtPC >= 0 /\ Family(WordAtPC) = 15 /\ instruction_t(WordAtPC).NN = nn

\* the body of for(int i = 0; i < ips / refresh_rate; ++i){ c.cpu_next_instr(); }
\* (main.cpp:84-87)
FrameStep ==
    /\ host.i < StepsPerFrame
    /\ host.frames < MaxFrames
    /\ StepMachine
    /\ host' = [host EXCEPT
                  !.i = @ + 1,
                  !.delay_set = IF SetsTimer(21)
                                THEN [n |-> V[instruction_t(WordAtPC).X], k |-> 0]
                                ELSE @,
                  !.sound_set = IF SetsTimer(24)
                                THEN [n |-> V[instruction_t(WordAtPC).X], k |-> 0]
                                ELSE @]

\* one more frame has ended since the timer was set
Aged(set) == IF set.n >= 0 THEN [set EXCEPT !.k = @ + 1] ELSE set

\* the rest of the loop body once the batch is done and the assert has
\* passed: render, then the timers and the audio device (main.cpp:88-133)
FrameEnd ==
    /\ Alive
    /\ last.op # "init"
    /\ host.i >= StepsPerFrame
    /\ \E d \in TickDelay(M) : \E s \in TickSound(d, host.audio) :
          /\ Becomes(s.m)
          /\ host' = [host EXCEPT !.i = 0, !.audio = s.audio, !.frames = @ + 1,
                                  !.ran = host.i,
                                  !.delay_set = Aged(@), !.sound_set = Aged(@)]
    /\ UNCHANGED << ticks, calls >>
    /\ last' = Call("frame", -1, -1, << >>)

\* assert(active_time < 16.67) fails: the batch took longer than a frame
\* (main.cpp:89-90)
FrameOverrun ==
    /\ Alive
    /\ last.op # "init"
    /\ host.i >= StepsPerFrame
    /\ Becomes(Aborted(M))
    /\ UNCHANGED << ticks, calls, host >>
    /\ last' = Call("frame_overrun", -1, -1, << >>)

\* SDL_EVENT_QUIT is polled at the top of a frame: goto exit (main.cpp:79-83)
Quit ==
    /\ Alive
    /\ last.op # "init"
    /\ host.i = 0
    /\ Becomes([M EXCEPT !.outcome = "exit"])
    /\ UNCHANGED << ticks, calls, host >>
    /\ last' = Call("quit", -1, -1, << >>)

\* ------------------------------------------------------------ programs
\* The host reads the rom from a file into a zero-filled vector and hands it to
\* load (main.cpp:40-43).  ram is zero above the font, so a rom and the same
\* rom followed by zeros load the same memory.

\* the bytes of a sequence of instruction words, big-endian
WordBytes(ws) ==
    [i \in 1..(2 * Len(ws)) |->
        IF i % 2 = 1 THEN ws[(i + 1) \div 2] \div 256 ELSE ws[i \div 2] % 256]

\* the programs of 1..n words over a set of words
ProgramsOver(words, n) ==
    {WordBytes(ws) : ws \in UNION {[1..k -> words] : k \in 1..n}}

\* a rom of len bytes, all equal
Filled(len, byte) == [i \in 1..len |-> byte]

\* roms around the size limit of load; the fill bytes make words 0x0000
\* (no instruction) and 0x1212 (a jump to 0x212, inside the rom)
BigRoms ==
    {Filled(len, byte) : len \in (MAX_PROG_SIZE - 1)..(MAX_PROG_SIZE + 1),
                         byte \in {0, 18}}

\* 00E0, 00EE, 0123, 1200, 2204, 6005, 8014, 8008, A005, B200, E09E, E000,
\* F007, F029, F129, F033, F0FF
MachineWords ==
    {224, 238, 291, 4608, 8708, 24581, 32788, 32776, 40965, 45568, 57502, 57344,
     61447, 61481, 61737, 61491, 61695}

MachinePrograms == ProgramsOver(MachineWords, MaxProgWords) \cup BigRoms \cup {<< >>}

\* ------------------------------------------------------------ the machine
LoadMachineProgram == \E prog \in MachinePrograms : Load(prog)

Next == LoadMachineProgram \/ Step

Spec == Init /\ [][Next]_vars

\* ------------------------------------------------------------ the timers
\* F015, F115, F018, F118, F007, 1200
TimerWords == {61461, 61717, 61464, 61720, 61447, 4608}

LoadTimerProgram == \E prog \in ProgramsOver(TimerWords, MaxProgWords) : Load(prog)

NextTimer == LoadTimerProgram \/ Step \/ DecrementDelayTimer \/ DecrementSoundTimer

SpecTimer == Init /\ [][NextTimer]_vars

\* ------------------------------------------------------------ subroutines
\* 2202, 2204, 00EE, 1200
CallWords == {8706, 8708, 238, 4608}

LoadCallProgram == \E prog \in ProgramsOver(CallWords, MaxCallWords) : Load(prog)

NextCall == LoadCallProgram \/ Step

SpecCall == Init /\ [][NextCall]_vars

\* ------------------------------------------------------------ the keypad
\* F00A, F10A, E09E, E0A1
KeyWords == {61450, 61706, 57502, 57505}

\* the keys the host presses and releases
PressableKeys == {KEYBOARD_SIZE - 1 - 3 * k : k \in 0..MaxKey}

LoadKeyProgram == \E prog \in ProgramsOver(KeyWords, MaxProgWords) : Load(prog)

HostKey == \E k \in PressableKeys, pressed \in BOOLEAN : KeypadUpdate(k, pressed)

NextKey == LoadKeyProgram \/ Step \/ HostKey

SpecKey == Init /\ [][NextKey]_vars

\* ------------------------------------------------------------ the display
\* D015, D014, D10F, DF05
DrawWords == {53269, 53268, 53519, 57093}

LoadDrawProgram == \E prog \in ProgramsOver(DrawWords, MaxDrawWords) : Load(prog)

NextDraw == LoadDrawProgram \/ Step

SpecDraw == Init /\ [][NextDraw]_vars

\* ------------------------------------------------------------ sprites at the edges
\* D00F, DF05, D0F5, 1200
SpriteWords == {53263, 57093, 53493, 4608}

LoadSpriteProgram == \E prog \in ProgramsOver(SpriteWords, MaxSpriteWords) : Load(prog)

NextSprite == LoadSpriteProgram \/ Step

SpecSprite == Init /\ [][NextSprite]_vars

\* ------------------------------------------------------------ arithmetic
\* Chip8 c; of a build whose initializer of copy_vy_to_vx_in_shift is either
\* value: the switch is a member set once, by its initializer.  No 8XYN or
\* 6XNN reads I, so one of its values is followed.
InitAlu ==
    /\ Members
    /\ I = SeedWord(0)
    /\ delay_timer = 0
    /\ sound_timer = 0
    /\ config \in {[DefaultConfig EXCEPT !.copy_vy_to_vx_in_shift = b] : b \in BOOLEAN}
    /\ build = "src"
    /\ NoHistory
    /\ HostStart

\* 8014, 8004, 80F4; 8015, 8005, 80F5; 8017, 8007, 80F7; 8016, 801E, 80F6,
\* 80FE; 8F14, 8F15, 8F16, 8F17, 8F1E
AluWords ==
    {32788, 32772, 33012, 32789, 32773, 33013, 32791, 32775, 33015,
     32790, 32798, 33014, 33022, 36628, 36629, 36630, 36631, 36638}

\* the operand values
AluValues == UNION {{k, 128 - k, 255 - k} : k \in 0..MaxEdge}

\* 6YNN, 6XNN, then the word w = 8XYN: V[Y] = b, V[X] = a, then the operation
AluProgram(w, a, b) ==
    WordBytes(<< 24576 + instruction_t(w).Y * 256 + b,
                 24576 + instruction_t(w).X * 256 + a,
                 w >>)

LoadAluProgram ==
    \E w \in AluWords, a \in AluValues, b \in AluValues : Load(AluProgram(w, a, b))

NextAlu == LoadAluProgram \/ Step

SpecAlu == InitAlu /\ [][NextAlu]_vars

\* ------------------------------------------------------------ the index register
\* Chip8 c; of either definition of the class: the inline header gives the
\* timers no initializer, so there they are indeterminate
InitIndex ==
    /\ Members
    /\ build \in {"src", "inline"}
    /\ delay_timer \in IF build = "src" THEN {0} ELSE {SeedByte(k) : k \in 0..MaxSeed}
    /\ sound_timer \in IF build = "src" THEN {0} ELSE {SeedByte(k) : k \in 0..MaxSeed}
    /\ config = DefaultConfig
    /\ NoHistory
    /\ HostStart

\* F01E, F11E, FF1E
IndexWords == {61470, 61726, 65310}

LoadIndexProgram == \E prog \in ProgramsOver(IndexWords, MaxIndexWords) : Load(prog)

NextIndex == LoadIndexProgram \/ Step

SpecIndex == InitIndex /\ [][NextIndex]_vars

\* ------------------------------------------------------------ decoding every word
\* one constructed machine; decoding does not look at it
InitDecode ==
    /\ Init
    /\ I = SeedWord(0)
    /\ \A r \in 0..(GPREG_NUM - 1) : V[r] = SeedByte(0)

\* every value of a uint16_t, one in a behaviour
DecodeWord == last.op = "init" /\ \E tmp \in 0..(U16 - 1) : Decode(tmp)

SpecDecode == InitDecode /\ [][DecodeWord]_vars

\* ------------------------------------------------------------ block transfers
\* Chip8 c; of a build whose initializer of FX55_FX65_modify_I is either
\* value: the switch is a member set once, by its initializer
InitBlock ==
    /\ Members
    /\ delay_timer = 0
    /\ sound_timer = 0
    /\ config \in {[DefaultConfig EXCEPT !.FX55_FX65_modify_I = b] : b \in BOOLEAN}
    /\ build = "src"
    /\ NoHistory
    /\ HostStart

\* F055, F065, F255, F265, FF55, FF65
BlockWords == {61525, 61541, 62037, 62053, 65365, 65381}

LoadBlockProgram == \E prog \in ProgramsOver(BlockWords, MaxBlockWords) : Load(prog)

NextBlock == LoadBlockProgram \/ Step

SpecBlock == InitBlock /\ [][NextBlock]_vars

\* ------------------------------------------------------------ decimal digits
\* C0FF F033: V0 takes any value, then its digits are stored at I;
\* AFFD C0FF F033: the same at I = 4093, the last address with room for three;
\* CAFF FA33: the same for VA
BcdPrograms ==
    { WordBytes(<< 49407, 61491 >>),
      WordBytes(<< 45053, 49407, 61491 >>),
      WordBytes(<< 51967, 64051 >>) }

LoadBcdProgram == \E prog \in BcdPrograms : Load(prog)

NextBcd == LoadBcdProgram \/ Step

SpecBcd == Init /\ [][NextBcd]_vars

\* ------------------------------------------------------------ steps and the timers
\* Chip8 c; of either definition of the class, with one value of I
InitClock ==
    /\ InitIndex
    /\ I = SeedWord(0)

\* the words of the machine and of the timers, and 3000, 4000, 5010, 7001,
\* 9010, C00F, D011: a word of every family
ClockWords ==
    MachineWords \cup TimerWords \cup {12288, 16384, 20496, 28673, 36880, 49167, 53265}

\* one word, alone or after F015 or F018
ClockPrograms ==
    {WordBytes(<< w >>) : w \in ClockWords}
        \cup {WordBytes(<< t, w >>) : t \in {61461, 61464}, w \in ClockWords}

LoadClockProgram == \E prog \in ClockPrograms : Load(prog)

NextClock == LoadClockProgram \/ Step

SpecClock == InitClock /\ [][NextClock]_vars

\* ------------------------------------------------------------ the host loop
\* 600a, t1, 00E0 nine times (the first frame), then 600b, t2 and a jump to
\* itself at 0x21A; t1 and t2 are F015 or F018
HostProgram(a, t1, b, t2) ==
    WordBytes(<< 24576 + a, t1 >> \o [q \in 1..9 |-> 224] \o << 24576 + b, t2, 4634 >>)

HostPrograms ==
    {HostProgram(a, t1, b, t2) : a \in 0..MaxTimerSet, b \in 0..MaxTimerSet,
                                 t1 \in {61461, 61464}, t2 \in {61461, 61464}}

LoadHostProgram == \E prog \in HostPrograms : Load(prog)

NextHost == LoadHostProgram \/ FrameStep \/ FrameEnd \/ FrameOverrun \/ Quit

SpecHost == InitClock /\ [][NextHost]_vars

\* ------------------------------------------------------------ one step of any kind
\* 00E0, 00EE, 1200, 1FFF, 2204, 3000, 303D, 4000, 5010, 6005, 7001, 8014,
\* 9010, A123, B004, C001, D015, E09E, E0A1, F007, F00A, F015, F01E, F029,
\* F033, F255, F265
StepWords ==
    {224, 238, 4608, 8191, 8708, 12288, 12349, 16384, 20496, 24581, 28673, 32788,
     36880, 41251, 45060, 49153, 53269, 57502, 57505, 61447, 61450, 61461, 61470,
     61481, 61491, 62037, 62053}

\* 600F, 6010, AFFE: V0 = 15, V0 = 16, I = 0xFFE
StepSetup == {24591, 24592, 45054}

\* the words run after a setup word: the skips and the words that address ram
StepProbes ==
    {12288, 16384, 20496, 36880, 53269, 57502, 57505, 61491, 62037, 62053}

StepPrograms ==
    {WordBytes(<< w >>) : w \in StepWords}
        \cup {WordBytes(<< p, w >>) : p \in StepSetup, w \in StepProbes}

LoadStepProgram == \E prog \in StepPrograms : Load(prog)

\* a key goes down between two frames
HostPress == \E k \in PressableKeys : KeypadUpdate(k, TRUE)

NextStep == LoadStepProgram \/ Step \/ HostPress

SpecStep == Init /\ [][NextStep]_vars

\* ------------------------------------------------------------ properties
\* the last call was a step whose two fetched bytes were inside ram
Stepped == last.op = "step" /\ last.word >= 0

\* the fields of the word the last step fetched
LastInstr == instruction_t(last.word)
LastFamily == last.word \div 4096

\* C1: timer floor.  A decrement call made while the timer is 0 leaves it at
\* 0, for the delay timer and for the sound timer.
C1_TimerFloor ==
    /\ (last.op = "decrement_delay_timer" /\ last.pre.delay_timer = 0)
          => delay_timer = 0
    /\ (last.op = "decrement_sound_timer" /\ last.pre.sound_timer = 0)
          => sound_timer = 0

\* C2: load accepts every rom of 0..MAX_PROG_SIZE bytes (all that fit in
\* [0x200, 4096)), copies byte i to address 0x200 + i and leaves every other
\* byte of ram as it was.
C2_LoadAcceptsWhatFits ==
    (last.op = "load" /\ Len(last.prog) <= MAX_PROG_SIZE) =>
        /\ outcome = "ok"
        /\ \A a \in 0..(RAM_SIZE - 1) :
              Byte(ram, a) =
                  IF a >= PC_RESET_VALUE /\ a < PC_RESET_VALUE + Len(last.prog)
                  THEN last.prog[a - PC_RESET_VALUE + 1]
                  ELSE Byte(last.pre.ram, a)

\* C3: after FX29, I is the address 5 * d of the glyph of d = V[X] & 0xF, and
\* the five bytes at I..I+4 are the five rows of that glyph.
C3_FontAddress ==
    (Stepped /\ LastFamily = 15 /\ LastInstr.NN = 41 /\ outcome = "ok") =>
        LET d == last.pre.V[LastInstr.X] % 16
        IN  /\ I = FONT_START_ADDR + 5 * d
            /\ \A j \in 0..4 : Byte(ram, I + j) = FontTable[5 * d + j + 1]

\* C4: right after construction PC = 0x200, I = 0, every register is 0, the
\* stack is empty, both timers are 0, the display is clear and ram[0..79]
\* holds the font.
C4_Constructed ==
    last.op = "init" =>
        /\ PC = PC_RESET_VALUE
        /\ I = 0
        /\ \A r \in 0..(GPREG_NUM - 1) : V[r] = 0
        /\ stack = << >>
        /\ delay_timer = 0
        /\ sound_timer = 0
        /\ screen = {}
        /\ \A a \in 0..(Len(FontTable) - 1) : Byte(ram, a) = FontTable[a + 1]

\* the words of families 0x0, 0x8 and 0xE that are no instruction
NoInstruction08E(w) ==
    LET instr == instruction_t(w)
        family == w \div 4096
    IN  \/ family = 0 /\ instr.NNN \notin {224, 238}
        \/ family = 8 /\ instr.N \in {8, 9, 10, 11, 12, 13, 15}
        \/ family = 14 /\ instr.NN \notin {158, 161}

\* C5: a step on a word of family 0x0, 0x8 or 0xE that is no instruction ends
\* in failure: it never returns normally.
C5_InvalidIsFatal ==
    (Stepped /\ NoInstruction08E(last.word)) => outcome # "ok"

\* the sub-opcodes handle_F_instr has a case for
FCases == {7, 10, 21, 24, 30, 41, 51, 85, 101}

\* C6: a step on FXNN with NN outside the implemented sub-opcodes ends in
\* failure: it does not return normally.
C6_InvalidFIsFatal ==
    (Stepped /\ LastFamily = 15 /\ LastInstr.NN \notin FCases) => outcome # "ok"

\* C7: a step on 00EE with the call stack empty ends in failure: it never
\* returns normally.
C7_EmptyReturnIsFatal ==
    (Stepped /\ last.word = 238 /\ last.pre.stack = << >>) => outcome # "ok"

\* C8: subroutine round trip.  The 00EE that matches a call 2NNN executed at
\* address A sets PC to A + 2 and leaves the stack as the call found it, at
\* every call depth; the pending calls and the stack stay in step; and in a
\* step free of undefined behaviour only 2NNN and 00EE change the stack.
C8_RoundTrip ==
    [][ /\ Len(calls') < Len(calls) =>
              /\ PC' = (calls[Len(calls)].at + 2) % U16
              /\ stack' = calls[Len(calls)].before
        /\ ~ub' => Len(calls') = Len(stack')
        /\ (stack' # stack /\ ~ub') =>
              /\ last'.op = "step"
              /\ (last'.word \div 4096 = 2 \/ last'.word = 238) ]_vars

\* C8 witness: a return from a call made inside another call
C8_NestedReturn ==
    /\ Stepped /\ last.word = 238 /\ outcome = "ok" /\ ~ub
    /\ Len(last.pre.stack) >= 2
    /\ stack = SubSeq(last.pre.stack, 1, Len(last.pre.stack) - 1)
    /\ PC = last.pre.stack[Len(last.pre.stack)]

\* the step about to be taken fetches FXNN with NN = 0x0A
AtWaitKey == WordAtPC >= 0 /\ WordAtPC \div 4096 = 15 /\ WordAtPC % 256 = 10

\* everything but PC and V is left as it was
OnlyPCAndVMayChange ==
    UNCHANGED << ram, I, stack, delay_timer, sound_timer, screen, keyboard, config,
                 build >>

\* C9: blocking wait.  A step on FX0A with no key pressed changes nothing (PC
\* stays at the instruction, which is executed again); with a key pressed it
\* stores the lowest pressed key in V[X], leaves PC after the instruction and
\* changes nothing else.
C9_WaitKey ==
    [][ (last'.op = "step" /\ AtWaitKey) =>
          /\ outcome' = "ok" /\ ~ub'
          /\ OnlyPCAndVMayChange
          /\ IF keyboard = {}
             THEN PC' = PC /\ V' = V
             ELSE /\ PC' = PC + 2
                  /\ \E k \in keyboard :
                        /\ \A j \in keyboard : k <= j
                        /\ V' = [V EXCEPT ![instruction_t(WordAtPC).X] = k] ]_vars

\* C9 witness: a step on FX0A with two keys down has stored the lower one and
\* moved on
C9_KeyTaken ==
    /\ Stepped /\ LastFamily = 15 /\ LastInstr.NN = 10
    /\ Cardinality(last.pre.keyboard) >= 2
    /\ \A j \in last.pre.keyboard : V[LastInstr.X] <= j
    /\ V[LastInstr.X] \in last.pre.keyboard
    /\ PC = last.addr + 2

\* the last two calls were steps on the same word DXYN, both returned normally,
\* and the second found the origin and the sprite bytes the first had found
DrewTwice ==
    /\ Stepped /\ LastFamily = 13 /\ outcome = "ok" /\ ~ub
    /\ last.prior.op = "step" /\ last.prior.word = last.word
    /\ last.pre.V[LastInstr.X] % 64 = last.prior.pre.V[LastInstr.X] % 64
    /\ last.pre.V[LastInstr.Y] % 32 = last.prior.pre.V[LastInstr.Y] % 32
    /\ \A r \in 0..(LastInstr.N - 1) :
          /\ last.prior.pre.I + r < RAM_SIZE
          /\ Byte(last.pre.ram, last.pre.I + r)
               = Byte(last.prior.pre.ram, last.prior.pre.I + r)

\* C10: drawing the same sprite twice at the same origin restores the display
\* to what it was before the first draw, and the second draw leaves VF = 1
\* when the first draw turned a pixel on.
C10_DoubleDraw ==
    DrewTwice =>
        /\ screen = last.prior.pre.screen
        /\ (last.pre.screen \ last.prior.pre.screen # {}) => V[15] = 1

\* C10 witness: two equal draws onto a display that was not clear, where the
\* first draw turned pixels off (a collision) and turned pixels on
C10_DrewTwiceOverPixels ==
    /\ DrewTwice
    /\ last.prior.pre.screen # {}
    /\ last.prior.pre.screen \ last.pre.screen # {}
    /\ last.pre.screen \ last.prior.pre.screen # {}
    /\ last.pre.V[15] = 1

\* the last call was a step on DXYN that returned normally and read its
\* sprite inside ram
LastDraw == Stepped /\ LastFamily = 13 /\ outcome = "ok" /\ ~ub

\* the origin of the last draw, from the registers the step started with
OriginCol == last.pre.V[LastInstr.X] % 64
OriginRow == last.pre.V[LastInstr.Y] % 32

\* the smaller of two numbers
Min(a, b) == IF a < b THEN a ELSE b

\* the display positions inside the clipped rectangle of the last draw whose
\* sprite bit is set: row r of the sprite is the byte at I + r, its most
\* significant bit leftmost
Covered ==
    LET rows == OriginRow..(Min(OriginRow + LastInstr.N, 32) - 1)
        cols == OriginCol..(Min(OriginCol + 8, 64) - 1)
        bits == {rc \in rows \X cols :
                    TestBit(Byte(last.pre.ram, last.pre.I + (rc[1] - OriginRow)),
                            7 - (rc[2] - OriginCol))}
    IN  {rc[1] * 64 + rc[2] : rc \in bits}

\* the display positions the last call changed
Changed == (screen \ last.pre.screen) \cup (last.pre.screen \ screen)

\* C11: sprite clipping.  DXYN takes its origin as (V[X] mod 64, V[Y] mod 32)
\* and changes exactly the display pixels of the set sprite bits that lie in
\* columns origin..min(origin + 8, 64) - 1 and rows origin..min(origin + N, 32) - 1;
\* nothing is drawn outside the 64 x 32 grid, nothing wraps to column 0 or
\* row 0, and VF = 1 only with a collision inside that rectangle.
C11_Clipping ==
    LastDraw =>
        /\ Changed = Covered
        /\ screen \subseteq 0..(SCREEN_SIZE - 1)
        /\ V[15] = 1 => Covered \cap last.pre.screen # {}

\* C11 witness: a draw whose rectangle is cut at the right and at the bottom
\* edge, with a set sprite bit in a column past the right edge
C11_CutAtBothEdges ==
    /\ LastDraw
    /\ OriginCol + 8 > 64
    /\ OriginRow + LastInstr.N > 32
    /\ Changed # {}
    /\ \E c \in 0..7 :
          /\ OriginCol + c >= 64
          /\ TestBit(Byte(last.pre.ram, last.pre.I), 7 - c)

\* C12: collision flag.  After DXYN, VF = 1 if and only if a set sprite bit
\* inside the grid fell on a pixel that was set (and turned it off), else
\* VF = 0; the origin is the one V[X], V[Y] held before VF was reset, also
\* when X or Y is 0xF, so the sprite is drawn at that origin.
C12_CollisionFlag ==
    LastDraw =>
        /\ V[15] = IF Covered \cap last.pre.screen # {} THEN 1 ELSE 0
        /\ Covered \cap last.pre.screen = last.pre.screen \ screen
        /\ Covered \ last.pre.screen = screen \ last.pre.screen

\* C12 witness: a draw whose column register is VF, holding a column other
\* than 0 when the step starts, that ends with a collision
C12_CollisionWithOriginInVF ==
    /\ LastDraw
    /\ LastInstr.X = 15
    /\ last.pre.V[15] % 64 # 0
    /\ Covered \cap last.pre.screen # {}
    /\ V[15] = 1

\* the last call was a step on 8XYN with N = n that returned normally
LastAlu(n) ==
    Stepped /\ LastFamily = 8 /\ LastInstr.N = n /\ outcome = "ok" /\ ~ub

\* the operands V[X] and V[Y] the last step started with
OldVX == last.pre.V[LastInstr.X]
OldVY == last.pre.V[LastInstr.Y]

\* C13: 8XY4 carry law.  For X other than 0xF (X = Y and Y = 0xF included),
\* after 8XY4 V[X] = (old V[X] + old V[Y]) mod 256 and VF = 1 exactly when
\* old V[X] + old V[Y] > 255, else VF = 0.
C13_Carry ==
    (LastAlu(4) /\ LastInstr.X # 15) =>
        /\ V[LastInstr.X] = (OldVX + OldVY) % 256
        /\ V[15] = IF OldVX + OldVY > 255 THEN 1 ELSE 0

\* C13 witness: an addition into V0 of VF that sums to exactly 256
C13_CarryOutOfVF ==
    /\ LastAlu(4) /\ LastInstr.X # 15 /\ LastInstr.Y = 15
    /\ OldVX + OldVY = 256
    /\ V[LastInstr.X] = 0 /\ V[15] = 1

\* C14: no-borrow law.  For X other than 0xF (X = Y and Y = 0xF included),
\* 8XY5 sets V[X] = (old V[X] - old V[Y]) mod 256 with VF = 1 exactly when
\* old V[X] >= old V[Y]; 8XY7 sets V[X] = (old V[Y] - old V[X]) mod 256 with
\* VF = 1 exactly when old V[Y] >= old V[X]; VF = 0 otherwise.
C14_NoBorrow ==
    /\ (LastAlu(5) /\ LastInstr.X # 15) =>
          /\ V[LastInstr.X] = (OldVX - OldVY) % 256
          /\ V[15] = IF OldVX >= OldVY THEN 1 ELSE 0
    /\ (LastAlu(7) /\ LastInstr.X # 15) =>
          /\ V[LastInstr.X] = (OldVY - OldVX) % 256
          /\ V[15] = IF OldVY >= OldVX THEN 1 ELSE 0

\* C14 witness: 8XY7 with Y = 0xF that borrows: 128 - 255 leaves 129, VF 0
C14_BorrowFromVF ==
    /\ LastAlu(7) /\ LastInstr.X # 15 /\ LastInstr.Y = 15
    /\ OldVY < OldVX
    /\ V[LastInstr.X] = OldVY + 256 - OldVX /\ V[15] = 0

\* the value a shift works on: V[Y] with the switch on, V[X] with it off
ShiftOperand == IF config.copy_vy_to_vx_in_shift THEN OldVY ELSE OldVX

\* the flag of the last step on 8XYN, from the operands it started with
Flag ==
    CASE LastInstr.N = 4 -> IF OldVX + OldVY > 255 THEN 1 ELSE 0
      [] LastInstr.N = 5 -> IF OldVX >= OldVY THEN 1 ELSE 0
      [] LastInstr.N = 6 -> ShiftOperand % 2
      [] LastInstr.N = 7 -> IF OldVY >= OldVX THEN 1 ELSE 0
      [] LastInstr.N = 14 -> ShiftOperand \div 128

\* C15: VF write order.  After 8XY4, 8XY5, 8XY6, 8XY7 or 8XYE with X = 0xF,
\* VF holds the flag (carry, no-borrow, shifted-out bit) computed from the
\* operands held before the instruction, never the arithmetic result.
C15_FlagLast ==
    \A n \in {4, 5, 6, 7, 14} :
        (LastAlu(n) /\ LastInstr.X = 15) => V[15] = Flag

\* C15 witness: 8FY4 whose sum 254 differs from its carry 1
C15_CarryNotSum ==
    /\ LastAlu(4) /\ LastInstr.X = 15 /\ LastInstr.Y # 15
    /\ (OldVX + OldVY) % 256 = 254
    /\ V[15] = 1

\* C16 as stated: with the switch off, for X # Y, 8XY6 leaves V[X] = old
\* V[X] >> 1, VF = bit 0 of old V[X] and V[Y] unchanged (8XYE: V[X] = (old
\* V[X] << 1) mod 256, VF = bit 7); with the switch on, the result and VF
\* come from old V[Y] alone.
C16_ShiftQuirkAsStated ==
    \A n \in {6, 14} :
        LastAlu(n) =>
            LET shifted(v) == IF n = 6 THEN v \div 2 ELSE (v * 2) % 256
                out(v) == IF n = 6 THEN v % 2 ELSE v \div 128
            IN  IF config.copy_vy_to_vx_in_shift
                THEN /\ LastInstr.X # 15 => V[LastInstr.X] = shifted(OldVY)
                     /\ V[15] = out(OldVY)
                ELSE LastInstr.X # LastInstr.Y =>
                        /\ V[LastInstr.X] = shifted(OldVX)
                        /\ V[15] = out(OldVX)
                        /\ V[LastInstr.Y] = OldVY

\* C16: shift quirk, for the registers that are not VF.  With the switch
\* off, 8XY6 and 8XYE never read V[Y]: VF = bit 0 (resp. bit 7) of old V[X],
\* V[X] = old V[X] >> 1 (resp. << 1 mod 256) when X # 0xF, and V[Y] is
\* unchanged when Y is neither X nor 0xF.  With the switch on, VF is that bit
\* of old V[Y] and V[X] the shifted old V[Y] when X # 0xF.
C16_ShiftQuirk ==
    \A n \in {6, 14} :
        LastAlu(n) =>
            LET shifted(v) == IF n = 6 THEN v \div 2 ELSE (v * 2) % 256
                out(v) == IF n = 6 THEN v % 2 ELSE v \div 128
            IN  IF config.copy_vy_to_vx_in_shift
                THEN /\ LastInstr.X # 15 => V[LastInstr.X] = shifted(OldVY)
                     /\ V[15] = out(OldVY)
                ELSE /\ LastInstr.X # 15 => V[LastInstr.X] = shifted(OldVX)
                     /\ V[15] = out(OldVX)
                     /\ LastInstr.Y \notin {LastInstr.X, 15} => V[LastInstr.Y] = OldVY

\* C16 witness: 8XYE with the switch on and X # Y, where bit 7 of old V[X]
\* and of old V[Y] differ and the two shifted values differ
C16_ShiftOfVY ==
    /\ LastAlu(14) /\ config.copy_vy_to_vx_in_shift
    /\ LastInstr.X # 15 /\ LastInstr.Y \notin {LastInstr.X, 15}
    /\ OldVX \div 128 # OldVY \div 128
    /\ V[15] = OldVY \div 128
    /\ V[LastInstr.X] = (OldVY * 2) % 256
    /\ V[LastInstr.X] # (OldVX * 2) % 256

\* C17: in the default configuration FX1E sets I to I + V[X] (a 16-bit sum)
\* and leaves every general register, VF included, unchanged, also when the
\* sum exceeds 0xFFF.
C17_IndexAddLeavesVF ==
    (Stepped /\ LastFamily = 15 /\ LastInstr.NN = 30 /\ config = DefaultConfig) =>
        /\ outcome = "ok"
        /\ I = (last.pre.I + last.pre.V[LastInstr.X]) % U16
        /\ V = last.pre.V

\* bit i of w
BitAt(w, i) == (w \div (2 ^ i)) % 2

\* the number made of the n bits of w from bit lo upwards
RECURSIVE Field(_, _, _)
Field(w, lo, n) == IF n = 0 THEN 0 ELSE BitAt(w, lo) + 2 * Field(w, lo + 1, n - 1)

\* C18: decoding is total and pure over all 65536 instruction words w: it
\* yields X = bits 8-11, Y = bits 4-7, N = bits 0-3, NN = bits 0-7 and NNN =
\* bits 0-11 of w, decoding w again yields the same fields, and the family
\* the dispatch selects on is bits 12-15 of w, one of the sixteen handlers.
C18_DecodeTotal ==
    last.op = "decode" =>
        /\ last.instr = [ X   |-> Field(last.word, 8, 4),
                          Y   |-> Field(last.word, 4, 4),
                          N   |-> Field(last.word, 0, 4),
                          NN  |-> Field(last.word, 0, 8),
                          NNN |-> Field(last.word, 0, 12) ]
        /\ instruction_t(last.word) = last.instr
        /\ last.family = Field(last.word, 12, 4)
        /\ last.family \in 0..15

\* C18 witness: the word 0xABCD decoded into X = 0xB, Y = 0xC, N = 0xD,
\* NN = 0xCD, NNN = 0xBCD, family 0xA
C18_DecodedABCD ==
    /\ last.op = "decode" /\ last.word = 43981
    /\ last.instr = [X |-> 11, Y |-> 12, N |-> 13, NN |-> 205, NNN |-> 3021]
    /\ last.family = 10

\* the last call was a step on FXNN with NN = nn that returned normally and
\* stayed inside ram
LastF(nn) ==
    Stepped /\ LastFamily = 15 /\ LastInstr.NN = nn /\ outcome = "ok" /\ ~ub

\* I after a block transfer that started with I = i0
Advanced(i0) ==
    IF config.FX55_FX65_modify_I THEN (i0 + LastInstr.X + 1) % U16 ELSE i0

\* the last two calls were FX55, then FX65 with the same X
StoredThenLoaded ==
    /\ LastF(101)
    /\ last.prior.op = "step"
    /\ last.prior.word = last.word - 101 + 85

\* C19: block transfer.  FX55 writes V[i] to memory[I + i] for i in 0..X and
\* changes no other byte and no register; FX65 loads V[i] from memory[I + i]
\* for i in 0..X and changes no register above X and no memory; I is
\* unchanged with the I-mutation switch off and advanced by exactly X + 1 with
\* it on; so FX65 right after FX55 with the same X reloads the stored values
\* with the switch off, and with it on loads the X + 1 bytes that follow them.
C19_BlockTransfer ==
    /\ LastF(85) =>
          /\ \A a \in DOMAIN ram \cup DOMAIN last.pre.ram
                      \cup (last.pre.I)..(last.pre.I + LastInstr.X) :
                Byte(ram, a) =
                    IF a >= last.pre.I /\ a <= last.pre.I + LastInstr.X
                    THEN last.pre.V[a - last.pre.I]
                    ELSE Byte(last.pre.ram, a)
          /\ V = last.pre.V
          /\ I = Advanced(last.pre.I)
    /\ LastF(101) =>
          /\ \A i \in 0..LastInstr.X : V[i] = Byte(last.pre.ram, last.pre.I + i)
          /\ \A r \in (LastInstr.X + 1)..(GPREG_NUM - 1) : V[r] = last.pre.V[r]
          /\ ram = last.pre.ram
          /\ I = Advanced(last.pre.I)
    /\ StoredThenLoaded =>
          \A i \in 0..LastInstr.X :
              V[i] = IF config.FX55_FX65_modify_I
                     THEN Byte(ram, last.prior.pre.I + LastInstr.X + 1 + i)
                     ELSE last.prior.pre.V[i]

\* C19 witness: with the switch on, F255 then F265: I has moved by 3 twice and
\* a register holds a value other than the one stored
C19_ReloadMisses ==
    /\ StoredThenLoaded
    /\ config.FX55_FX65_modify_I
    /\ LastInstr.X >= 1
    /\ I = last.prior.pre.I + 2 * (LastInstr.X + 1)
    /\ \E i \in 0..LastInstr.X : V[i] # last.prior.pre.V[i]

\* C20: FX33.  For every value v of V[X] in 0..255, after the step
\* memory[I] = v div 100, memory[I + 1] = (v div 10) mod 10 and memory[I + 2]
\* = v mod 10, each a digit 0..9 with 100 * memory[I] + 10 * memory[I + 1] +
\* memory[I + 2] = v; I, all registers and every other byte are unchanged.
C20_Bcd ==
    LastF(51) =>
        LET v == last.pre.V[LastInstr.X]
            digits == {I, I + 1, I + 2}
        IN  /\ Byte(ram, I) = v \div 100
            /\ Byte(ram, I + 1) = (v \div 10) % 10
            /\ Byte(ram, I + 2) = v % 10
            /\ \A a \in digits : Byte(ram, a) \in 0..9
            /\ 100 * Byte(ram, I) + 10 * Byte(ram, I + 1) + Byte(ram, I + 2) = v
            /\ I = last.pre.I
            /\ V = last.pre.V
            /\ \A a \in (DOMAIN ram \cup DOMAIN last.pre.ram) \ digits :
                  Byte(ram, a) = Byte(last.pre.ram, a)

\* C20 witness: 209, with a zero in the middle, stored as 2, 0, 9 in the last
\* three bytes of memory
C20_Digits209 ==
    /\ LastF(51)
    /\ last.pre.V[LastInstr.X] = 209
    /\ I = RAM_SIZE - 3
    /\ Byte(ram, I) = 2 /\ Byte(ram, I + 1) = 0 /\ Byte(ram, I + 2) = 9

\* C21: the step never decrements a timer.  Across a step the delay timer
\* changes only on FX15, to V[X], and the sound timer only on FX18, to V[X];
\* every other instruction leaves both as they were, and FX07 copies the
\* delay timer into V[X] without changing it.
C21_StepKeepsTimers ==
    (Stepped /\ ~ub) =>
        /\ delay_timer = IF LastFamily = 15 /\ LastInstr.NN = 21
                          THEN last.pre.V[LastInstr.X]
                          ELSE last.pre.delay_timer
        /\ sound_timer = IF LastFamily = 15 /\ LastInstr.NN = 24
                          THEN last.pre.V[LastInstr.X]
                          ELSE last.pre.sound_timer
        /\ (LastFamily = 15 /\ LastInstr.NN = 7) => V[LastInstr.X] = last.pre.delay_timer

\* C21 witness: FX07 has read a running delay timer into a register that
\* held another value, and the timer still holds it
C21_ReadRunningTimer ==
    /\ LastF(7)
    /\ last.pre.delay_timer > 0
    /\ last.pre.V[LastInstr.X] # last.pre.delay_timer
    /\ V[LastInstr.X] = last.pre.delay_timer
    /\ delay_timer = last.pre.delay_timer

\* ------------------------------------------------------------ C25
\* the value a timer holds k frames after it was set to n
Counted(set) == IF set.n > set.k THEN set.n - set.k ELSE 0

\* C25: a frame of the host loop runs ips / refresh_rate = 11 steps and then
\* takes each timer down by one if it is above 0 and leaves it at 0 otherwise
\* (never 0 to 255); a timer that FX15 / FX18 set to n holds n - k after k
\* further frame ends, 0 from the n-th on, until it is set again.
C25_HostPacing ==
    /\ last.op = "frame" =>
          /\ host.ran = 11
          /\ delay_timer = IF last.pre.delay_timer > 0
                            THEN last.pre.delay_timer - 1 ELSE 0
          /\ sound_timer = IF last.pre.sound_timer > 0
                            THEN last.pre.sound_timer - 1 ELSE 0
    /\ (Alive /\ host.delay_set.n >= 0) => delay_timer = Counted(host.delay_set)
    /\ (Alive /\ host.sound_set.n >= 0) => sound_timer = Counted(host.sound_set)

\* witness: a delay timer set to 2 is 0 at the end of the third frame after
C25_StaysZero ==
    /\ last.op = "frame"
    /\ host.delay_set = [n |-> 2, k |-> 3]
    /\ last.pre.delay_timer = 0
    /\ delay_timer = 0

\* ------------------------------------------------------------ C26
\* C26: at the end of a frame the tone plays only if the sound timer is above
\* 0; with the sound timer at 0, counted down or set by FX18, it is paused.
C26_ToneFollowsSoundTimer ==
    last.op = "frame" => (host.audio = "playing" => sound_timer > 0)

\* ------------------------------------------------------------ C22
\* a step that ended normally and free of undefined behaviour
LastNormal == Stepped /\ outcome = "ok" /\ ~ub

\* the skip condition of the last word on the state the step started in
SkipHolds ==
    LET f == LastFamily
        x == last.pre.V[LastInstr.X]
        y == last.pre.V[LastInstr.Y]
    IN  CASE f = 3 -> x = LastInstr.NN
          [] f = 4 -> x # LastInstr.NN
          [] f = 5 -> x = y
          [] f = 9 -> x # y
          [] f = 14 /\ LastInstr.NN = 158 -> x \in last.pre.keyboard
          [] f = 14 /\ LastInstr.NN = 161 -> x \notin last.pre.keyboard
          [] OTHER -> FALSE

\* the last word is a jump, a call or a return
Transfers == LastFamily \in {1, 2, 11} \/ last.word = 238

\* the last word is a key wait that found no key down
WaitsOn == LastFamily = 15 /\ LastInstr.NN = 10 /\ last.pre.keyboard = {}

\* C22: a step that ends normally fetched the word at [A, A + 2) inside ram
\* and leaves PC at A + 4 when the word is a skip (3XNN, 4XNN, 5XY0, 9XY0,
\* EX9E, EXA1) whose condition holds, at A for a key wait with no key down, at
\* the target for a jump or a call, and at A + 2 otherwise, as plain sums: PC
\* is never reduced modulo 2^16.
C22_PCStepping ==
    LastNormal =>
        LET A == last.addr
        IN  /\ A + 1 < RAM_SIZE
            /\ last.word = Byte(last.pre.ram, A) * 256 + Byte(last.pre.ram, A + 1)
            /\ LastFamily \in {3, 4, 5, 9, 14} =>
                    PC = A + (IF SkipHolds THEN 4 ELSE 2)
            /\ WaitsOn => PC = A
            /\ LastFamily \in {1, 2} => PC = LastInstr.NNN
            /\ LastFamily = 11 => PC = last.pre.V[0] + LastInstr.NNN
            /\ (~Transfers /\ ~WaitsOn /\ LastFamily \notin {3, 4, 5, 9, 14}) =>
                    PC = A + 2

\* witness: EX9E on a key that is down skips the word after it
C22_SkippedOnKey ==
    /\ LastNormal
    /\ last.word = 57502
    /\ last.pre.V[0] \in last.pre.keyboard
    /\ PC = last.addr + 4

\* ------------------------------------------------------------ C23
\* the ram addresses the last word accesses besides its own two bytes, from
\* the state the step started in: the rows of DXYN that are on the screen,
\* I..I+2 of FX33, I..I+X of FX55 and FX65
OperandAddresses ==
    LET i0 == last.pre.I
        y == last.pre.V[LastInstr.Y] % 32
    IN  CASE LastFamily = 13 ->
               {i0 + r : r \in {q \in 0..(LastInstr.N - 1) : y + q < 32}}
          [] LastFamily = 15 /\ LastInstr.NN = 51 -> {i0, i0 + 1, i0 + 2}
          [] LastFamily = 15 /\ LastInstr.NN \in {85, 101} -> i0..(i0 + LastInstr.X)
          [] OTHER -> {}

\* C23: every address a step reads or writes lies in [0, 4096): the two fetch
\* addresses PC and PC + 1 and the addresses its word accesses through I.
C23_AccessInsideRam ==
    last.op = "step" =>
        /\ last.addr + 1 < RAM_SIZE
        /\ last.word >= 0 => \A a \in OperandAddresses : a < RAM_SIZE

\* ------------------------------------------------------------ C24
\* C24: EX9E and EXA1 end as a normal step, for every value of V[X], with PC
\* two or four past the word.
C24_KeyLookupNeverFails ==
    (Stepped /\ last.word \in {57502, 57505}) =>
        /\ outcome = "ok"
        /\ PC \in {last.addr + 2, last.addr + 4}

====
